---- MODULE Spec2Model ----
(***************************************************************************)
(* Model of research-paper/scripts/analyze_data.py: a linear analysis      *)
(* script.  The state is the script's module-level names (the three data   *)
(* frames, the statistics computed from them, the figures written so far,  *)
(* what was printed) plus the part of the file system it touches (the      *)
(* three CSV files under ../data and the directory ../figures).  One       *)
(* action per section of the script, taken in program order through pc.    *)
(*                                                                         *)
(* Floating point values are kept exact: a value is a record               *)
(*   [k |-> "num", n, d]   the rational n/d (d > 0)                        *)
(*   [k |-> "sqrt", n, d]  the square root of n/d                          *)
(*   [k |-> "nan"], [k |-> "inf"]  what numpy yields for 0/0 and x/0       *)
(* so that NaN propagation (pandas: mean of an empty Series, std of fewer  *)
(* than two values) is part of the model.                                  *)
(***************************************************************************)
EXTENDS Integers, Sequences, FiniteSets, TLC

\* ------------------------------------------------------------------ bounds
MaxTechRows == 2
MaxCollabRows == 4
MaxCalibRows == 2

\* ------------------------------------------------------- values of the data
SessionIds == {1, 2}
Times == {0, 60}
FpsVals == {84, 91}
CalErrVals == {7, 9}
Durations == {30, 45}
LatencyVals == {70, 80}
TempVals == {30, 35}
ScenarioVals == {"scenario_basic", "basic"}
InterfaceVals == {"baseline", "wim"}
TimeVals == {80, 100}
ErrVals == {0, 2}
CheckpointVals == {0, 45}
TotalErrVals == {4, 12}

TechCols == {"session_id", "scenario", "timestamp_sec", "duration_min",
             "network_latency_ms", "frame_rate_fps", "calibration_error_mm",
             "headset_temp_c"}
CollabCols == {"interface_type", "task_completion_time_sec",
               "coordination_errors", "spatial_awareness_score", "task_success"}
CalibCols == {"timestamp_min", "total_error_mm"}

\* File names of the four figures, in the order the script saves them.
FigureNames == <<"technical_performance_summary.png", "frame_rate_stability.png",
                 "calibration_drift.png", "temperature_correlation.png">>
\* A file in ../figures that the script does not write.
ForeignName == "notes.txt"

\* ------------------------------------------------------------ float values
NaN == [k |-> "nan", n |-> 0, d |-> 1]
Inf == [k |-> "inf", n |-> 0, d |-> 1]
Num(a, b) == [k |-> "num", n |-> a, d |-> b]
Root(a, b) == [k |-> "sqrt", n |-> a, d |-> b]
IsNum(x) == x.k = "num"
IsNaN(x) == x.k = "nan"

\* x - y
Sub(x, y) ==
    IF IsNum(x) /\ IsNum(y) THEN Num(x.n * y.d - y.n * x.d, x.d * y.d) ELSE NaN

\* x / y for numpy float64 scalars: a zero divisor gives inf or nan (with a
\* RuntimeWarning), never an exception.
Quot(x, y) ==
    IF ~(IsNum(x) /\ IsNum(y)) THEN NaN
    ELSE IF y.n = 0 THEN (IF x.n = 0 THEN NaN ELSE Inf)
    ELSE IF y.n > 0 THEN Num(x.n * y.d, x.d * y.n)
    ELSE Num(-(x.n * y.d), x.d * (-y.n))

\* x < c, x <= c, x >= c for an integer c; a comparison with NaN is False.
Lt(x, c) == IsNum(x) /\ x.n < c * x.d
Le(x, c) == IsNum(x) /\ x.n <= c * x.d
Ge(x, c) == IsNum(x) /\ x.n >= c * x.d
\* Same value (NaN equals nothing, as in IEEE 754).
Same(x, y) == IsNum(x) /\ IsNum(y) /\ x.n * y.d = y.n * x.d

RECURSIVE SumSeq(_)
SumSeq(s) == IF s = <<>> THEN 0 ELSE Head(s) + SumSeq(Tail(s))

SqSeq(s) == [i \in 1..Len(s) |-> s[i] * s[i]]

\* ------------------------------------------------------------ pandas Series
\* Series.mean(): NaN for an empty Series.
Mean(s) == IF Len(s) = 0 THEN NaN ELSE Num(SumSeq(s), Len(s))

\* n*sum(x^2) - sum(x)^2 = n * (sum of squared deviations)
Dev(s) == Len(s) * SumSeq(SqSeq(s)) - SumSeq(s) * SumSeq(s)

\* Variant: the population standard deviation (ddof=0, numpy's default),
\* which is 0 for a single value.
StdPop(s) == IF Len(s) < 1 THEN NaN ELSE Root(Dev(s), Len(s) * Len(s))

\* Series.std() (ddof=1): NaN for fewer than two values.
Std(s) == IF Len(s) < 2 THEN NaN ELSE Root(Dev(s), Len(s) * (Len(s) - 1))

\* x ** 2 of a std
Sq(x) == IF x.k = "sqrt" THEN Num(x.n, x.d) ELSE NaN

\* frame[col] as a sequence of values
Column(frame, col) == [i \in 1..Len(frame.rows) |-> frame.rows[i][col]]

\* frame[frame[col] == v]: a new frame, the rows kept in order
Where(frame, col, v) ==
    [cols |-> frame.cols, rows |-> SelectSeq(frame.rows, LAMBDA r : r[col] = v)]

Has(frame, needed) == needed \subseteq frame.cols

\* ------------------------------------------------- hypothesis test (l. 88-102)
\* (len(a)-1)*a.std()**2 + (len(b)-1)*b.std()**2, over the common denominator
\* len(a)*len(b): (len-1)*std**2 = Dev/len.
PooledSS(a, b) ==
    IF IsNaN(Std(a)) \/ IsNaN(Std(b)) THEN NaN
    ELSE Num((Len(a) - 1) * Sq(Std(a)).n * (Len(b) * (Len(b) - 1))
               + (Len(b) - 1) * Sq(Std(b)).n * (Len(a) * (Len(a) - 1)),
             Sq(Std(a)).d * Sq(Std(b)).d)

\* ... / (len(a) + len(b) - 2)
PooledVar(a, b) == Quot(PooledSS(a, b), Num(Len(a) + Len(b) - 2, 1))

\* The value diff / sqrt(rad), kept as the pair (diff, rad); nan and inf as
\* numpy's float division gives them.
OverRoot(diff, rad) ==
    IF ~(IsNum(diff) /\ IsNum(rad)) THEN [k |-> "nan", diff |-> NaN, rad |-> NaN]
    ELSE IF rad.n = 0
         THEN [k |-> IF diff.n = 0 THEN "nan" ELSE "inf", diff |-> diff, rad |-> rad]
    ELSE [k |-> "num", diff |-> diff, rad |-> rad]

\* Variant: the difference scaled by the first sample's deviation alone.
CohensDGlass(a, b) == OverRoot(Sub(Mean(a), Mean(b)), Sq(Std(a)))

\* l. 91, 99: (a.mean() - b.mean()) / np.sqrt(pooled variance)
CohensD(a, b) == OverRoot(Sub(Mean(a), Mean(b)), PooledVar(a, b))

\* -x of such a value
NegD(x) == [x EXCEPT !.diff = IF IsNum(x.diff) THEN Num(-x.diff.n, x.diff.d) ELSE NaN]

\* Same number: equal numerators and equal radicands (as rationals).
SameD(x, y) == /\ x.k = "num" /\ y.k = "num"
               /\ Same(x.diff, y.diff) /\ Same(x.rad, y.rad)

\* scipy.stats.ttest_ind(a, b), equal_var=True (the default):
\* t = (mean(a) - mean(b)) / sqrt(sp2 * (1/na + 1/nb)), df = na + nb - 2; a
\* sample of fewer than two values has variance nan and yields t = p = nan
\* without raising.  The p-value is a function of |t| and df and is kept as
\* that pair.
TTestInd(a, b) ==
    LET sp2 == PooledVar(a, b)
        rad == IF IsNum(sp2)
               THEN Num(sp2.n * (Len(a) + Len(b)), sp2.d * Len(a) * Len(b))
               ELSE NaN
        t == OverRoot(Sub(Mean(a), Mean(b)), rad)
    IN  [t |-> t,
         p |-> IF t.k = "nan" THEN [k |-> "nan", t |-> t, df |-> 0]
               ELSE [k |-> "num", t |-> t, df |-> Len(a) + Len(b) - 2]]

\* l. 93, 101: (a.mean() - b.mean()) / a.mean() * 100
PctChange(a, b) ==
    LET q == Quot(Sub(Mean(a), Mean(b)), Mean(a))
    IN  IF IsNum(q) THEN Num(q.n * 100, q.d) ELSE q

\* --------------------------------------------------- grouped statistics
MinOf(s) == CHOOSE x \in {s[i] : i \in 1..Len(s)} : \A j \in 1..Len(s) : x <= s[j]
MaxOf(s) == CHOOSE x \in {s[i] : i \in 1..Len(s)} : \A j \in 1..Len(s) : x >= s[j]

\* frame.groupby(key)[val].agg(['mean', 'std', 'min', 'max']): one row per
\* value of key that occurs; a group of one row has std NaN.
GroupAgg(frame, key, val) ==
    { LET g == Column(Where(frame, key, kv), val)
      IN  [key |-> kv, mean |-> Mean(g), std |-> Std(g),
           min |-> MinOf(g), max |-> MaxOf(g)]
      : kv \in {frame.rows[i][key] : i \in 1..Len(frame.rows)} }

\* (frame[col] <= c).mean() * 100 and (frame[col] >= c).mean() * 100
Hits(s, c, atMost) ==
    [i \in 1..Len(s) |-> IF (atMost /\ s[i] <= c) \/ (~atMost /\ s[i] >= c) THEN 1 ELSE 0]
Achievement(s, c, atMost) ==
    IF Len(s) = 0 THEN NaN ELSE Num(100 * SumSeq(Hits(s, c, atMost)), Len(s))

\* Series.corr (Pearson): NaN for fewer than two points or a constant column;
\* otherwise cov / sqrt(vx * vy), kept as (cov, vx * vy).
Corr(x, y) ==
    LET n == Len(x)
        xy == [i \in 1..n |-> x[i] * y[i]]
        cov == n * SumSeq(xy) - SumSeq(x) * SumSeq(y)
    IN  IF n < 2 \/ Dev(x) = 0 \/ Dev(y) = 0
        THEN [k |-> "nan", diff |-> NaN, rad |-> NaN]
        ELSE [k |-> "num", diff |-> Num(cov, 1), rad |-> Num(Dev(x) * Dev(y), 1)]

\* --------------------------------------------------- per-session drift
\* sorted(frame['session_id'].unique())
RECURSIVE SortedSeq(_)
SortedSeq(S) ==
    IF S = {} THEN <<>>
    ELSE LET m == CHOOSE x \in S : \A y \in S : x <= y
         IN  <<m>> \o SortedSeq(S \ {m})

SessionList(frame) == SortedSeq({frame.rows[i].session_id : i \in 1..Len(frame.rows)})

\* rows.sort_values('timestamp_sec'): the rows in ascending timestamp order.
\* The default sort (quicksort) is not stable, so rows with equal timestamps
\* may come out in any order: every such arrangement is a possible result.
SortValues(rows) ==
    LET n == Len(rows)
        perms == {p \in [1..n -> 1..n] : \A i, j \in 1..n : i # j => p[i] # p[j]}
    IN  { [i \in 1..n |-> rows[p[i]]] : p \in
            {q \in perms : \A i \in 1..n : \A j \in 1..n :
                 i < j => rows[q[i]].timestamp_sec <= rows[q[j]].timestamp_sec} }

\* x / duration, duration a numpy integer
Rate(x, duration) == Quot(Num(x, 1), Num(duration, 1))

\* Variant: calibration drift taken as first - last, like the frame-rate drift.
DriftSameSign(session, sd) ==
    LET first == sd[1]
        last == sd[Len(sd)]
        fps_drift == first.frame_rate_fps - last.frame_rate_fps
        calib_drift == first.calibration_error_mm - last.calibration_error_mm
        duration == first.duration_min
    IN  [session |-> session,
         scenario |-> first.scenario,
         duration |-> duration,
         fps_drift |-> fps_drift,
         fps_rate |-> Rate(fps_drift, duration),
         calib_drift |-> calib_drift,
         calib_rate |-> Rate(calib_drift, duration),
         latency_jitter |-> Std([i \in 1..Len(sd) |-> sd[i].network_latency_ms]),
         fps_final |-> last.frame_rate_fps,
         final |-> IF last.frame_rate_fps >= 85 THEN "PASS" ELSE "WARNING"]

\* l. 126-145: what the loop body computes from the sorted rows of a session
DriftOf(session, sd) ==
    LET first == sd[1]
        last == sd[Len(sd)]
        fps_drift == first.frame_rate_fps - last.frame_rate_fps
        calib_drift == last.calibration_error_mm - first.calibration_error_mm
        duration == first.duration_min
    IN  [session |-> session,
         scenario |-> first.scenario,
         duration |-> duration,
         fps_drift |-> fps_drift,
         fps_rate |-> Rate(fps_drift, duration),
         calib_drift |-> calib_drift,
         calib_rate |-> Rate(calib_drift, duration),
         latency_jitter |-> Std([i \in 1..Len(sd) |-> sd[i].network_latency_ms]),
         fps_final |-> last.frame_rate_fps,
         final |-> IF last.frame_rate_fps >= 85 THEN "PASS" ELSE "WARNING"]

\* scenario.split("_")
Split(scenario) ==
    IF scenario = "scenario_basic" THEN <<"scenario", "basic">> ELSE <<scenario>>

\* ------------------------------------------------------------------ state
VARIABLES
    pc,            \* the section of the script about to run
    disk,          \* the three CSV files under ../data
    figdir,        \* ../figures: absent, a directory (name -> content) or a file
    figdir0,       \* ../figures as it was when the script started
    tech_perf, collab_perf, calib_acc,
    latency_stats, fps_stats, calib_stats, initial_calib, extended_calib,
    wim_comparison,
    baseline_times, wim_times, t_stat, p_value, cohens_d, improvement_pct,
    baseline_errors, wim_errors, t_stat2, p_value2, cohens_d2, error_reduction,
    baseline_success, wim_success,
    sessions,      \* the session ids the drift loop has yet to visit
    session_data,  \* the loop variable of l. 123, 223, 248
    drifts,        \* what the drift loop computed, one record per iteration
    order,         \* session id -> its rows as sort_values arranged them
    temp_fps_corr, temp_calib_corr, temp_latency_corr,
    written,       \* the names passed to plt.savefig so far, in order
    summary_data,
    stdout         \* what has been printed, in order

frames == <<tech_perf, collab_perf, calib_acc>>
rq1Vars == <<latency_stats, fps_stats, calib_stats, initial_calib, extended_calib>>
rq23Vars == <<wim_comparison, baseline_times, wim_times, t_stat, p_value, cohens_d, improvement_pct,
              baseline_errors, wim_errors, t_stat2, p_value2, cohens_d2,
              error_reduction, baseline_success, wim_success>>
rq4Vars == <<sessions, session_data, drifts, order>>
corrVars == <<temp_fps_corr, temp_calib_corr, temp_latency_corr>>
vars == <<pc, disk, figdir, figdir0, frames, rq1Vars, rq23Vars, rq4Vars, corrVars,
          written, summary_data, stdout>>

\* ----------------------------------------------------------------- inputs
\* The data rows of a CSV file: at least one, at most n.
SeqsUpTo(S, n) == UNION {[1..k -> S] : k \in 1..n}

File(cols, rows) == [exists |-> TRUE, cols |-> cols, rows |-> rows]
NoFile == [exists |-> FALSE, cols |-> {}, rows |-> <<>>]
NoFrame == [cols |-> {}, rows |-> <<>>]
NoValue == [k |-> "nan", diff |-> NaN, rad |-> NaN]

\* A well-formed data set: one session of two samples, both interface types
\* with two trials each, calibration at both checkpoints.
GoodTech ==
    << [session_id |-> 1, scenario |-> "scenario_basic", timestamp_sec |-> 0,
        duration_min |-> 30, network_latency_ms |-> 70, frame_rate_fps |-> 91,
        calibration_error_mm |-> 7, headset_temp_c |-> 30],
       [session_id |-> 1, scenario |-> "scenario_basic", timestamp_sec |-> 60,
        duration_min |-> 30, network_latency_ms |-> 80, frame_rate_fps |-> 84,
        calibration_error_mm |-> 9, headset_temp_c |-> 35] >>
GoodCollab ==
    << [interface_type |-> "baseline", task_completion_time_sec |-> 100,
        coordination_errors |-> 2, spatial_awareness_score |-> 5, task_success |-> 0],
       [interface_type |-> "baseline", task_completion_time_sec |-> 80,
        coordination_errors |-> 0, spatial_awareness_score |-> 5, task_success |-> 1],
       [interface_type |-> "wim", task_completion_time_sec |-> 80,
        coordination_errors |-> 0, spatial_awareness_score |-> 5, task_success |-> 1],
       [interface_type |-> "wim", task_completion_time_sec |-> 80,
        coordination_errors |-> 2, spatial_awareness_score |-> 5, task_success |-> 1] >>
GoodCalib ==
    << [timestamp_min |-> 0, total_error_mm |-> 4],
       [timestamp_min |-> 45, total_error_mm |-> 12] >>

GoodDisk == [tech |-> File(TechCols, GoodTech),
             collab |-> File(CollabCols, GoodCollab),
             calib |-> File(CalibCols, GoodCalib)]
NoDir == [kind |-> "absent", entries |-> <<>>]

\* A data set that meets none of the targets of the summary table: initial
\* calibration 12mm, latency 80ms, 84fps, equal completion times.
MissedDisk ==
    [tech |-> File(TechCols, [i \in 1..2 |->
                 [GoodTech[i] EXCEPT !.network_latency_ms = 80, !.frame_rate_fps = 84]]),
     collab |-> File(CollabCols, [i \in 1..4 |->
                 [GoodCollab[i] EXCEPT !.task_completion_time_sec = 90 + 10 * (i % 2)]]),
     calib |-> File(CalibCols, [i \in 1..2 |-> [GoodCalib[i] EXCEPT !.total_error_mm = 12]])]

\* Rows of technical_performance.csv, varied a few columns at a time: what the
\* frame-rate drift reads, what the calibration drift reads, and what the
\* benchmarks, the correlations and the plots read.
FpsRows ==
    [session_id : SessionIds, scenario : {"scenario_basic"}, timestamp_sec : Times,
     duration_min : Durations, network_latency_ms : {70}, frame_rate_fps : FpsVals,
     calibration_error_mm : {7}, headset_temp_c : {30}]
CalRows ==
    [session_id : SessionIds, scenario : {"scenario_basic"}, timestamp_sec : Times,
     duration_min : Durations, network_latency_ms : {70}, frame_rate_fps : {91},
     calibration_error_mm : CalErrVals, headset_temp_c : {30}]
PerfRows ==
    [session_id : {1}, scenario : ScenarioVals, timestamp_sec : Times,
     duration_min : {30}, network_latency_ms : LatencyVals, frame_rate_fps : {91},
     calibration_error_mm : {7}, headset_temp_c : TempVals]
\* Rows of collaboration_performance.csv: completion times varied, then
\* coordination errors.
TimeRows ==
    [interface_type : InterfaceVals, task_completion_time_sec : TimeVals,
     coordination_errors : {2}, spatial_awareness_score : {5}, task_success : {1}]
ErrRows ==
    [interface_type : InterfaceVals, task_completion_time_sec : {80},
     coordination_errors : ErrVals, spatial_awareness_score : {5}, task_success : {1}]
CalibRows == [timestamp_min : CheckpointVals, total_error_mm : TotalErrVals]

\* The contents ../figures may have before the run: any of the four figure
\* names and a foreign file, all with old content.
DirStates ==
    { [kind |-> "dir", entries |-> [n \in S |-> "old"]] :
        S \in SUBSET ({FigureNames[i] : i \in 1..Len(FigureNames)} \cup {ForeignName}) }
    \cup {NoDir, [kind |-> "file", entries |-> <<>>]}

\* The inputs of a run: the data files and the output directory.
Inputs ==
    { [disk |-> [GoodDisk EXCEPT !.tech = File(TechCols, rows)], figdir |-> NoDir] :
        rows \in SeqsUpTo(FpsRows, MaxTechRows) \cup SeqsUpTo(CalRows, MaxTechRows)
                   \cup SeqsUpTo(PerfRows, MaxTechRows) }
    \cup
    { [disk |-> [GoodDisk EXCEPT !.collab = File(CollabCols, rows)], figdir |-> NoDir] :
        rows \in SeqsUpTo(TimeRows, MaxCollabRows) \cup SeqsUpTo(ErrRows, MaxCollabRows) }
    \cup
    { [disk |-> [GoodDisk EXCEPT !.calib = File(CalibCols, rows)], figdir |-> NoDir] :
        rows \in SeqsUpTo(CalibRows, MaxCalibRows) }
    \cup
    { [disk |-> [GoodDisk EXCEPT ![f] = NoFile], figdir |-> NoDir] :
        f \in {"tech", "collab", "calib"} }
    \cup
    { [disk |-> [GoodDisk EXCEPT !.tech.cols = TechCols \ {c}], figdir |-> NoDir] :
        c \in TechCols }
    \cup
    { [disk |-> [GoodDisk EXCEPT !.collab.cols = CollabCols \ {c}], figdir |-> NoDir] :
        c \in CollabCols }
    \cup
    { [disk |-> [GoodDisk EXCEPT !.calib.cols = CalibCols \ {c}], figdir |-> NoDir] :
        c \in CalibCols }
    \cup
    { [disk |-> GoodDisk, figdir |-> d] : d \in DirStates }
    \cup
    { [disk |-> MissedDisk, figdir |-> NoDir] }

Init ==
    /\ pc = "makedirs"
    /\ \E inp \in Inputs : disk = inp.disk /\ figdir = inp.figdir /\ figdir0 = inp.figdir
    /\ tech_perf = NoFrame /\ collab_perf = NoFrame /\ calib_acc = NoFrame
    /\ latency_stats = {} /\ fps_stats = {} /\ calib_stats = {}
    /\ initial_calib = <<>> /\ extended_calib = <<>>
    /\ wim_comparison = {}
    /\ baseline_times = <<>> /\ wim_times = <<>>
    /\ t_stat = NoValue /\ p_value = [k |-> "nan", t |-> NoValue, df |-> 0]
    /\ cohens_d = NoValue /\ improvement_pct = NaN
    /\ baseline_errors = <<>> /\ wim_errors = <<>>
    /\ t_stat2 = NoValue /\ p_value2 = [k |-> "nan", t |-> NoValue, df |-> 0]
    /\ cohens_d2 = NoValue /\ error_reduction = NaN
    /\ baseline_success = NaN /\ wim_success = NaN
    /\ sessions = <<>> /\ session_data = <<>> /\ drifts = <<>> /\ order = <<>>
    /\ temp_fps_corr = NoValue /\ temp_calib_corr = NoValue /\ temp_latency_corr = NoValue
    /\ written = <<>>
    /\ summary_data = <<>>
    /\ stdout = <<>>

\* ---------------------------------------------------------------- actions
Out(tag, val) == <<[tag |-> tag, val |-> val]>>

\* l. 21: os.makedirs('../figures', exist_ok=True).  An existing directory is
\* left as it is; a plain file of that name raises FileExistsError.
MakeDirs ==
    /\ pc = "makedirs"
    /\ figdir' = IF figdir.kind = "absent" THEN [kind |-> "dir", entries |-> <<>>]
                 ELSE figdir
    /\ pc' = IF figdir.kind = "file" THEN "error" ELSE "load"
    /\ UNCHANGED <<disk, figdir0, frames, rq1Vars, rq23Vars, rq4Vars, corrVars,
                   written, summary_data, stdout>>

\* pd.read_csv(path): the frame of an existing file
ReadCsv(file) == [cols |-> file.cols, rows |-> file.rows]

\* l. 24-31: the three reads, in order (a missing file raises
\* FileNotFoundError and leaves the later names unbound), then the counts;
\* tech_perf['session_id'] raises KeyError without that column.
Load ==
    /\ pc = "load"
    /\ LET ok1 == disk.tech.exists
           ok2 == ok1 /\ disk.collab.exists
           ok3 == ok2 /\ disk.calib.exists
           ok4 == ok3 /\ "session_id" \in disk.tech.cols
       IN  /\ tech_perf' = IF ok1 THEN ReadCsv(disk.tech) ELSE tech_perf
           /\ collab_perf' = IF ok2 THEN ReadCsv(disk.collab) ELSE collab_perf
           /\ calib_acc' = IF ok3 THEN ReadCsv(disk.calib) ELSE calib_acc
           /\ stdout' = stdout \o Out("Loading datasets...", 0)
                  \o (IF ok4
                      THEN Out("measurements", Len(disk.tech.rows))
                           \o Out("sessions", Len(SessionList(disk.tech)))
                           \o Out("task trials", Len(disk.collab.rows))
                           \o Out("calibration points", Len(disk.calib.rows))
                      ELSE <<>>)
           /\ pc' = IF ok4 THEN "rq1" ELSE "error"
    /\ UNCHANGED <<disk, figdir0, figdir, rq1Vars, rq23Vars, rq4Vars, corrVars,
                   written, summary_data>>

\* l. 37-66: benchmark statistics.  A missing column raises KeyError at its
\* first use; an empty selection (no rows with timestamp_min == 0 or == 45)
\* is an empty Series whose mean and std are NaN.
RQ1 ==
    /\ pc = "rq1"
    /\ LET ok1 == Has(tech_perf, {"scenario", "network_latency_ms"})
           ok2 == ok1 /\ Has(tech_perf, {"frame_rate_fps"})
           ok3 == ok2 /\ Has(calib_acc, {"timestamp_min", "total_error_mm"})
           lat == Column(tech_perf, "network_latency_ms")
           fps == Column(tech_perf, "frame_rate_fps")
           ini == Column(Where(calib_acc, "timestamp_min", 0), "total_error_mm")
           ext == Column(Where(calib_acc, "timestamp_min", 45), "total_error_mm")
       IN  /\ latency_stats' = IF ok1
                               THEN GroupAgg(tech_perf, "scenario", "network_latency_ms")
                               ELSE latency_stats
           /\ fps_stats' = IF ok2 THEN GroupAgg(tech_perf, "scenario", "frame_rate_fps")
                           ELSE fps_stats
           /\ calib_stats' = IF ok3
                             THEN GroupAgg(calib_acc, "timestamp_min", "total_error_mm")
                             ELSE calib_stats
           /\ initial_calib' = IF ok3 THEN ini ELSE initial_calib
           /\ extended_calib' = IF ok3 THEN ext ELSE extended_calib
           /\ stdout' = stdout
                  \o (IF ok1
                      THEN Out("latency achievement", Achievement(lat, 75, TRUE))
                           \o Out("latency mean", Mean(lat)) \o Out("latency std", Std(lat))
                      ELSE <<>>)
                  \o (IF ok2
                      THEN Out("fps achievement", Achievement(fps, 90, FALSE))
                           \o Out("fps mean", Mean(fps)) \o Out("fps std", Std(fps))
                      ELSE <<>>)
                  \o (IF ok3
                      THEN Out("Initial Calibration", Mean(ini))
                           \o Out("Extended (45min)", Mean(ext))
                           \o Out("Drift", Sub(Mean(ext), Mean(ini)))
                      ELSE <<>>)
           /\ pc' = IF ok3 THEN "rq23" ELSE "error"
    /\ UNCHANGED <<disk, figdir0, figdir, frames, rq23Vars, rq4Vars, corrVars,
                   written, summary_data>>

\* l. 77-82: collab_perf.groupby('interface_type').agg({...})
InterfaceAgg(frame) ==
    { LET g == Where(frame, "interface_type", kv)
      IN  [key |-> kv,
           time_mean |-> Mean(Column(g, "task_completion_time_sec")),
           time_std |-> Std(Column(g, "task_completion_time_sec")),
           errors_mean |-> Mean(Column(g, "coordination_errors")),
           errors_std |-> Std(Column(g, "coordination_errors")),
           awareness_mean |-> Mean(Column(g, "spatial_awareness_score")),
           awareness_std |-> Std(Column(g, "spatial_awareness_score")),
           success |-> Mean(Column(g, "task_success"))]
      : kv \in {frame.rows[i].interface_type : i \in 1..Len(frame.rows)} }

\* The division by len(a) + len(b) - 2 on l. 91 has a zero divisor when the
\* two samples hold two values in all.  With one value each, both std() are
\* nan and the quotient is nan / 0: nan when std() is a numpy float64,
\* ZeroDivisionError when it is a Python float (pandas with bottleneck).  Both
\* outcomes are possible.
MayRaise(a, b) == IF Len(a) = 1 /\ Len(b) = 1 THEN BOOLEAN ELSE {FALSE}

\* l. 72-110: interface comparison, the two t-tests with their effect sizes,
\* success rates.  Samples are taken by boolean selection; neither their
\* size nor a NaN result is checked, so an empty or one-value sample prints
\* nan and the run goes on.
RQ23 ==
    /\ pc = "rq23"
    /\ LET ok == Has(collab_perf, CollabCols)
           base == Where(collab_perf, "interface_type", "baseline")
           wim == Where(collab_perf, "interface_type", "wim")
           bt == Column(base, "task_completion_time_sec")
           wt == Column(wim, "task_completion_time_sec")
           be == Column(base, "coordination_errors")
           we == Column(wim, "coordination_errors")
           bs == Mean(Column(base, "task_success"))
           ws == Mean(Column(wim, "task_success"))
       IN  \E raises \in (IF ok THEN MayRaise(bt, wt) ELSE {FALSE}) :
           LET done == ok /\ ~raises IN
           /\ wim_comparison' = IF ok THEN InterfaceAgg(collab_perf) ELSE wim_comparison
           /\ baseline_times' = IF ok THEN bt ELSE baseline_times
           /\ wim_times' = IF ok THEN wt ELSE wim_times
           /\ t_stat' = IF ok THEN TTestInd(bt, wt).t ELSE t_stat
           /\ p_value' = IF ok THEN TTestInd(bt, wt).p ELSE p_value
           /\ cohens_d' = IF done THEN CohensD(bt, wt) ELSE cohens_d
           /\ improvement_pct' = IF done THEN PctChange(bt, wt) ELSE improvement_pct
           /\ baseline_errors' = IF done THEN be ELSE baseline_errors
           /\ wim_errors' = IF done THEN we ELSE wim_errors
           /\ t_stat2' = IF done THEN TTestInd(be, we).t ELSE t_stat2
           /\ p_value2' = IF done THEN TTestInd(be, we).p ELSE p_value2
           /\ cohens_d2' = IF done THEN CohensD(be, we) ELSE cohens_d2
           /\ error_reduction' = IF done THEN PctChange(be, we) ELSE error_reduction
           /\ baseline_success' = IF done THEN bs ELSE baseline_success
           /\ wim_success' = IF done THEN ws ELSE wim_success
           /\ stdout' = stdout
                  \o (IF ok THEN Out("Interface Comparison", InterfaceAgg(collab_perf))
                      ELSE <<>>)
                  \o (IF done
                      THEN Out("T-test (completion time)",
                               [t |-> TTestInd(bt, wt).t, p |-> TTestInd(bt, wt).p,
                                d |-> CohensD(bt, wt)])
                           \o Out("Time Improvement", PctChange(bt, wt))
                           \o Out("T-test (coordination errors)",
                                  [t |-> TTestInd(be, we).t, p |-> TTestInd(be, we).p,
                                   d |-> CohensD(be, we)])
                           \o Out("Error Reduction", PctChange(be, we))
                           \o Out("Task Success Rates", [baseline |-> bs, wim |-> ws])
                      ELSE <<>>)
           /\ pc' = IF done THEN "rq4" ELSE "error"
    /\ UNCHANGED <<disk, figdir0, figdir, frames, rq1Vars, rq4Vars, corrVars,
                   written, summary_data>>

\* l. 116-122: the loop header; the iterable is evaluated once.
RQ4 ==
    /\ pc = "rq4"
    /\ sessions' = SessionList(tech_perf)
    /\ pc' = "drift"
    /\ UNCHANGED <<disk, figdir0, figdir, frames, rq1Vars, rq23Vars, session_data, drifts, order,
                   corrVars, written, summary_data, stdout>>

\* Variant: the whole frame sorted in place (sort_values(..., inplace=True)).
FrameSortedInPlace(frame, sd) ==
    [frame EXCEPT !.rows = CHOOSE r \in SortValues(frame.rows) : TRUE]

\* l. 123: tech_perf[...].sort_values('timestamp_sec') builds a new frame; the
\* frame it was taken from is what it was.
FrameAfterSort(frame, sd) == frame

\* l. 123-145: one iteration of the drift loop.  The session's rows are
\* selected and sorted into a new frame (tech_perf itself is not touched);
\* sorting the same rows again later in the run gives the same arrangement,
\* which order records.
DriftSession ==
    /\ pc = "drift" /\ sessions # <<>>
    /\ LET session == Head(sessions)
           rows == Where(tech_perf, "session_id", session).rows
           ok1 == Has(tech_perf, {"timestamp_sec"})
           ok2 == ok1 /\ Has(tech_perf, {"calibration_error_mm"})
           ok3 == ok2 /\ Has(tech_perf, {"duration_min"})
       IN  \E sd \in (IF ok1 THEN SortValues(rows) ELSE {session_data}) :
           /\ session_data' = sd
           /\ tech_perf' = IF ok1 THEN FrameAfterSort(tech_perf, sd) ELSE tech_perf
           /\ order' = IF ok1 THEN (session :> sd) @@ order ELSE order
           /\ drifts' = IF ok3 THEN Append(drifts, DriftOf(session, sd)) ELSE drifts
           /\ stdout' = IF ok3 THEN stdout \o Out("Session", DriftOf(session, sd))
                        ELSE stdout
           /\ sessions' = IF ok3 THEN Tail(sessions) ELSE sessions
           /\ pc' = IF ok3 THEN "drift" ELSE "error"
    /\ UNCHANGED <<disk, figdir0, figdir, collab_perf, calib_acc, rq1Vars, rq23Vars,
                   corrVars, written, summary_data>>

\* l. 147-155, after the loop: three correlations over the whole frame.
Correlation ==
    /\ pc = "drift" /\ sessions = <<>>
    /\ LET ok1 == Has(tech_perf, {"headset_temp_c", "frame_rate_fps"})
           ok2 == ok1 /\ Has(tech_perf, {"calibration_error_mm"})
           temp == Column(tech_perf, "headset_temp_c")
       IN  /\ temp_fps_corr' = IF ok1 THEN Corr(temp, Column(tech_perf, "frame_rate_fps"))
                               ELSE temp_fps_corr
           /\ temp_calib_corr' =
                  IF ok2 THEN Corr(temp, Column(tech_perf, "calibration_error_mm"))
                  ELSE temp_calib_corr
           /\ temp_latency_corr' =
                  IF ok2 THEN Corr(temp, Column(tech_perf, "network_latency_ms"))
                  ELSE temp_latency_corr
           /\ stdout' = IF ok2
                        THEN stdout \o Out("Temperature vs FPS",
                                           Corr(temp, Column(tech_perf, "frame_rate_fps")))
                        ELSE stdout
           /\ pc' = IF ok2 THEN "fig1" ELSE "error"
    /\ UNCHANGED <<disk, figdir0, figdir, frames, rq1Vars, rq23Vars, rq4Vars,
                   written, summary_data>>

\* Variant: an existing file of that name is kept.
SaveFigKeep(dir, name) == [dir EXCEPT !.entries = dir.entries @@ (name :> "new")]

\* plt.savefig('../figures/' + name): the file is created or replaced.
SaveFig(dir, name) == [dir EXCEPT !.entries = (name :> "new") @@ dir.entries]

\* Variant: a failure while rendering or saving is swallowed and the script
\* goes on to the next figure.
FigureSwallow(k, raised, io_ok, next) ==
    /\ figdir' = IF ~raised /\ io_ok THEN [figdir EXCEPT !.entries =
                                             (FigureNames[k] :> "new") @@ figdir.entries]
                 ELSE figdir
    /\ written' = IF ~raised /\ io_ok THEN Append(written, FigureNames[k]) ELSE written
    /\ stdout' = stdout
    /\ pc' = next

\* Rendering a figure and saving it.  raised: the rendering code raised;
\* io_ok: the write succeeded (savefig raises OSError otherwise).
Figure(k, raised, io_ok, next) ==
    /\ figdir' = IF ~raised /\ io_ok THEN SaveFig(figdir, FigureNames[k]) ELSE figdir
    /\ written' = IF ~raised /\ io_ok THEN Append(written, FigureNames[k]) ELSE written
    /\ stdout' = IF ~raised /\ io_ok THEN stdout \o Out("Saved", FigureNames[k])
                 ELSE stdout
    /\ pc' = IF ~raised /\ io_ok THEN next ELSE "error"

\* l. 161-217: latency panels and the completion-time bars.  Empty
\* selections and NaN means plot as nothing; no data condition raises.
Fig1 ==
    /\ pc = "fig1"
    /\ \E io_ok \in BOOLEAN : Figure(1, FALSE, io_ok, "fig2")
    /\ UNCHANGED <<disk, figdir0, frames, rq1Vars, rq23Vars, rq4Vars, corrVars, summary_data>>

\* The sessions in loop order up to and including the first whose first
\* sorted row has a scenario without "_" (scenario.split("_")[1] raises
\* IndexError there); all of them when there is none.
Visited(list) ==
    LET bad == {i \in 1..Len(list) : Len(Split(order[list[i]][1].scenario)) < 2}
    IN  IF bad = {} THEN list
        ELSE SubSeq(list, 1, CHOOSE i \in bad : \A j \in bad : i <= j)

SessionPlots(k, next) ==
    LET list == SessionList(tech_perf)
        seen == Visited(list)
        raised == seen # <<>> /\ Len(Split(order[seen[Len(seen)]][1].scenario)) < 2
    IN  /\ session_data' = IF seen = <<>> THEN session_data ELSE order[seen[Len(seen)]]
        /\ \E io_ok \in BOOLEAN : Figure(k, raised, io_ok, next)
        /\ UNCHANGED <<disk, figdir0, frames, rq1Vars, rq23Vars, sessions, drifts, order,
                       corrVars, summary_data>>

\* l. 219-242: frame rate per session
Fig2 == pc = "fig2" /\ SessionPlots(2, "fig3")

\* l. 244-266: calibration error per session
Fig3 == pc = "fig3" /\ SessionPlots(3, "fig4")

\* l. 268-300: temperature scatter plots with fitted lines; np.polyfit raises
\* TypeError on an empty vector.
Fig4 ==
    /\ pc = "fig4"
    /\ \E io_ok \in BOOLEAN : Figure(4, Len(tech_perf.rows) = 0, io_ok, "summary")
    /\ UNCHANGED <<disk, figdir0, frames, rq1Vars, rq23Vars, rq4Vars, corrVars, summary_data>>

\* Variant: each Status decided by its target.
StatusChecked(calib, latency, fps, p) ==
    << IF Lt(calib, 10) THEN "PASS" ELSE "FAIL",
       IF Le(latency, 75) THEN "PASS" ELSE "FAIL",
       IF Ge(fps, 90) THEN "PASS" ELSE "FAIL",
       IF p.k = "num" /\ p.t.k = "inf" THEN "PASS" ELSE "FAIL",
       "PASS" >>

\* l. 320: the Status column is a literal.
Status(calib, latency, fps, p) == <<"PASS", "PASS", "PASS", "PASS", "PASS">>

\* l. 306-324: the summary table
Summary ==
    /\ pc = "summary"
    /\ LET calib == Mean(initial_calib)
           latency == Mean(Column(tech_perf, "network_latency_ms"))
           fps == Mean(Column(tech_perf, "frame_rate_fps"))
       IN  /\ summary_data' =
                  [Requirement |-> <<"Calibration", "Network Latency", "Frame Rate",
                                     "WIM Effectiveness", "Session Stability">>,
                   Target |-> <<"<10mm", "<=75ms", ">=90fps", "Significant", "30-60min">>,
                   Achieved |-> <<calib, latency, fps, p_value, "45min optimal">>,
                   Status |-> Status(calib, latency, fps, p_value)]
           /\ stdout' = stdout \o Out("Status", Status(calib, latency, fps, p_value))
    /\ pc' = "complete"
    /\ UNCHANGED <<disk, figdir0, figdir, frames, rq1Vars, rq23Vars, rq4Vars, corrVars, written>>

\* Variant: only the figures of this script are counted.
ListDirFigures(dir) ==
    Cardinality(DOMAIN dir.entries \cap {FigureNames[i] : i \in 1..Len(FigureNames)})

\* len(os.listdir('../figures'))
ListDirCount(dir) == Cardinality(DOMAIN dir.entries)

\* l. 326-330
Complete ==
    /\ pc = "complete"
    /\ stdout' = stdout \o Out("Analysis Complete!", 0)
                        \o Out("Generated figures", ListDirCount(figdir))
    /\ pc' = "done"
    /\ UNCHANGED <<disk, figdir0, figdir, frames, rq1Vars, rq23Vars, rq4Vars, corrVars,
                   written, summary_data>>

Next ==
    \/ MakeDirs \/ Load \/ RQ1 \/ RQ23 \/ RQ4 \/ DriftSession \/ Correlation
    \/ Fig1 \/ Fig2 \/ Fig3 \/ Fig4 \/ Summary \/ Complete

Spec == Init /\ [][Next]_vars

\* ----------------------------------------------------------------- claims
FigureSet == {FigureNames[i] : i \in 1..Len(FigureNames)}
Printed(tag) == {stdout[i].val : i \in {j \in 1..Len(stdout) : stdout[j].tag = tag}}
Loaded == pc \notin {"makedirs", "load"}
PastTests == pc \notin {"makedirs", "load", "rq1", "rq23"}
\* The rows of a session, in file order
RowsOf(session) == Where(tech_perf, "session_id", session).rows

\* C1: a run that reaches normal termination has saved exactly the four
\* figures, each once and under its own name, and each of the four files
\* holds what this run wrote, whatever was there before.
C1_FourFiguresOnce ==
    pc = "done" =>
        /\ written = FigureNames
        /\ \A i, j \in 1..Len(written) : i # j => written[i] # written[j]
        /\ figdir.kind = "dir"
        /\ \A n \in FigureSet : n \in DOMAIN figdir.entries /\ figdir.entries[n] = "new"

\* C1 witness: a finished run that found an older file under a figure's name.
C1_Witness ==
    /\ pc = "done"
    /\ \E n \in FigureSet : n \in DOMAIN figdir0.entries /\ figdir0.entries[n] = "old"

\* The statistics of l. 37-155 have all been computed from the loaded frames.
StatsComputed ==
    /\ tech_perf = ReadCsv(disk.tech) /\ collab_perf = ReadCsv(disk.collab)
    /\ calib_acc = ReadCsv(disk.calib)
    /\ latency_stats = GroupAgg(tech_perf, "scenario", "network_latency_ms")
    /\ fps_stats = GroupAgg(tech_perf, "scenario", "frame_rate_fps")
    /\ calib_stats = GroupAgg(calib_acc, "timestamp_min", "total_error_mm")
    /\ Printed("T-test (completion time)") # {}
    /\ Printed("T-test (coordination errors)") # {}
    /\ Printed("Task Success Rates") # {}
    /\ sessions = <<>> /\ Len(drifts) = Len(SessionList(tech_perf))
    /\ Printed("Temperature vs FPS") # {}

\* C2: at every point of every run, aborted or not, the figures saved so far
\* are the first ones of the fixed order, and none is saved before the output
\* directory exists, the three files are loaded and the statistics are done.
C2_FiguresArePrefix ==
    /\ Len(written) <= Len(FigureNames)
    /\ \A i \in 1..Len(written) : written[i] = FigureNames[i]
    /\ written # <<>> => figdir.kind = "dir" /\ StatsComputed

\* C2 witness: a run that aborted after saving some but not all figures.
C2_Witness == pc = "error" /\ Len(written) \in 1..3

\* The malformed inputs the specification names: a missing file, a missing
\* column, an empty group.
MissingFile == \E f \in {"tech", "collab", "calib"} : ~disk[f].exists
MissingColumn ==
    \/ ~(TechCols \subseteq disk.tech.cols)
    \/ ~(CollabCols \subseteq disk.collab.cols)
    \/ ~(CalibCols \subseteq disk.calib.cols)
EmptyGroup ==
    \/ \E v \in CheckpointVals : \A i \in 1..Len(disk.calib.rows) :
           disk.calib.rows[i].timestamp_min # v
    \/ \E v \in InterfaceVals : \A i \in 1..Len(disk.collab.rows) :
           disk.collab.rows[i].interface_type # v

\* C3: no run over a malformed input (missing file, missing column, empty
\* group) gets as far as printing "Analysis Complete!".
C3_MalformedNeverCompletes ==
    (MissingFile \/ MissingColumn \/ EmptyGroup) => Printed("Analysis Complete!") = {}

\* C4: once the hypothesis tests have been passed with a baseline or wim
\* sample of fewer than two values, the run is in the error state and has
\* printed no test result.
C4_SmallSampleIsFatal ==
    (PastTests /\ Has(collab_perf, CollabCols)
       /\ (Len(baseline_times) < 2 \/ Len(wim_times) < 2))
    => pc = "error" /\ Printed("T-test (completion time)") = {}

\* C5: for every session with exactly one row, both drifts are 0 and the
\* latency jitter is NaN.
C5_SingleRowSession ==
    \A i \in 1..Len(drifts) :
        Len(RowsOf(drifts[i].session)) = 1 =>
            /\ drifts[i].fps_drift = 0
            /\ drifts[i].calib_drift = 0
            /\ IsNaN(drifts[i].latency_jitter)

\* C5 witness: the loop has handled a one-row session.
C5_Witness == \E i \in 1..Len(drifts) : Len(RowsOf(drifts[i].session)) = 1

\* The sessions are visited once each, in ascending order.
VisitedInOrder ==
    /\ Len(drifts) <= Len(SessionList(tech_perf))
    /\ \A i \in 1..Len(drifts) : drifts[i].session = SessionList(tech_perf)[i]
    /\ PastTests /\ pc \notin {"rq4", "drift", "error"}
           => Len(drifts) = Len(SessionList(tech_perf))

IsFirst(rows, i) == \A j \in 1..Len(rows) : rows[i].timestamp_sec <= rows[j].timestamp_sec
IsLast(rows, i) == \A j \in 1..Len(rows) : rows[i].timestamp_sec >= rows[j].timestamp_sec

\* C6 as stated: the drifts of a session are those of the row with the
\* smallest and the row with the largest timestamp, whichever rows of the
\* file these are, and the rates divide by the duration_min of the session.
C6_DriftOfExtremeRows ==
    /\ VisitedInOrder
    /\ \A i \in 1..Len(drifts) :
         LET rows == RowsOf(drifts[i].session) IN
         \A a, b, c \in 1..Len(rows) :
            IsFirst(rows, a) /\ IsLast(rows, b) =>
              /\ drifts[i].fps_drift = rows[a].frame_rate_fps - rows[b].frame_rate_fps
              /\ drifts[i].calib_drift
                     = rows[b].calibration_error_mm - rows[a].calibration_error_mm
              /\ drifts[i].fps_rate = Rate(drifts[i].fps_drift, rows[c].duration_min)
              /\ drifts[i].calib_rate = Rate(drifts[i].calib_drift, rows[c].duration_min)

\* C6 amended: the drifts of a session are those of one row with the
\* smallest timestamp and one row with the largest (two different rows when
\* the session has more than one), and the rates divide by the duration_min
\* of that smallest-timestamp row.
C6_DriftOfSortedEnds ==
    /\ VisitedInOrder
    /\ \A i \in 1..Len(drifts) :
         LET rows == RowsOf(drifts[i].session) IN
         \E a, b \in 1..Len(rows) :
            /\ IsFirst(rows, a) /\ IsLast(rows, b)
            /\ Len(rows) > 1 => a # b
            /\ drifts[i].fps_drift = rows[a].frame_rate_fps - rows[b].frame_rate_fps
            /\ drifts[i].calib_drift
                   = rows[b].calibration_error_mm - rows[a].calibration_error_mm
            /\ drifts[i].duration = rows[a].duration_min
            /\ drifts[i].fps_rate = Rate(drifts[i].fps_drift, rows[a].duration_min)
            /\ drifts[i].calib_rate = Rate(drifts[i].calib_drift, rows[a].duration_min)

\* C6 witness: a session of several rows, out of timestamp order in the
\* file, with a nonzero calibration drift.
C6_Witness ==
    \E i \in 1..Len(drifts) :
        LET rows == RowsOf(drifts[i].session) IN
        /\ Len(rows) > 1
        /\ rows[1].timestamp_sec > rows[Len(rows)].timestamp_sec
        /\ drifts[i].calib_drift # 0

\* C7: once the data is loaded, no step changes any of the three frames or
\* any of the three input files.
C7_FramesReadOnly ==
    [][Loaded => (frames' = frames /\ disk' = disk)]_vars

\* C7 witness: the drift loop has sorted a session whose rows are in another
\* order in tech_perf, and tech_perf is still what was read.
C7_Witness ==
    /\ pc = "drift" /\ session_data # <<>>
    /\ session_data # RowsOf(session_data[1].session_id)
    /\ tech_perf = ReadCsv(disk.tech)

\* C8: with both samples of two or more values and a nonzero pooled
\* variance, Cohen's d of (wim, baseline) is the negative of the cohens_d the
\* script computed for (baseline, wim): same magnitude, opposite sign.
C8_CohensDAntisymmetric ==
    (PastTests /\ Len(baseline_times) >= 2 /\ Len(wim_times) >= 2
       /\ cohens_d.k = "num")
    => /\ SameD(CohensD(wim_times, baseline_times), NegD(cohens_d))
       /\ CohensD(wim_times, baseline_times).diff.n = -cohens_d.diff.n

\* C8 witness: a computed, nonzero effect size from samples whose standard
\* deviations differ.
C8_Witness ==
    /\ PastTests /\ Len(baseline_times) >= 2 /\ Len(wim_times) >= 2
    /\ cohens_d.k = "num" /\ cohens_d.diff.n # 0
    /\ ~Same(Sq(Std(baseline_times)), Sq(Std(wim_times)))

\* C9: the count printed at the end is the number of entries of ../figures
\* at that moment; it is at least 4, and it is 4 only if the directory held
\* nothing but those four names before the run.
C9_FigureCount ==
    pc = "done" =>
        /\ Printed("Generated figures") = {Cardinality(DOMAIN figdir.entries)}
        /\ \A n \in Printed("Generated figures") :
              /\ n >= 4
              /\ n = 4 => DOMAIN figdir0.entries \subseteq FigureSet

\* C9 witness: a finished run that reports more figures than it wrote.
C9_Witness == pc = "done" /\ 5 \in Printed("Generated figures")

\* C10: on every normally terminating run all five Status values are PASS.
C10_StatusAlwaysPass ==
    pc \in {"complete", "done"} =>
        summary_data.Status = <<"PASS", "PASS", "PASS", "PASS", "PASS">>

\* C10 witness: a finished run whose data meets none of the four targets
\* (calibration >= 10mm, latency > 75ms, frame rate < 90fps, t = 0).
C10_Witness ==
    /\ pc = "done"
    /\ ~Lt(summary_data.Achieved[1], 10)
    /\ ~Le(summary_data.Achieved[2], 75)
    /\ ~Ge(summary_data.Achieved[3], 90)
    /\ p_value.k = "num" /\ p_value.t.k = "num" /\ p_value.t.diff.n = 0

====
